---- MODULE Spec2Model ----
(***************************************************************************)
(* Model of the crawl orchestration core: the task registry (TaskManager), *)
(* the task thread (CrawlTask), the three crawl modes of WebCrawler and    *)
(* the record-fetch pool, with the persisted watermark (config max_tid)    *)
(* and the per-forum TID files; and of the submission pipeline of          *)
(* Pan115Manager (process_csv_file, process_cache_file,                    *)
(* submit_batch_magnets and the per-item fallback) with its success        *)
(* record file; and of the scheduled job (update_scheduled_task).          *)
(*                                                                         *)
(* TIDs are digit strings in the code; they are modelled by their numeric  *)
(* value (int(tid)), and the watermark string '0' by the number 0.         *)
(***************************************************************************)
EXTENDS Integers, Sequences, FiniteSets, TLC

\* ---------------------------------------------------------------- bounds
NTasks == 1
NForums == 2
MaxId == 2
EndPage == 1
RegTasks == 12
PreRunning == 9
MaxPoolTids == 3
MaxWorkers == 2
MaxLen == 3
MaxBatch == 2
MaxNamed == 2
OverCap == 1
MaxIdent == 1
MaxTick == 1
MaxPage == 3
MaxRunPages == 2

\* ------------------------------------------------------ program constants
max_concurrent_tasks == 10
keep_finished == 10
start_page == 1
max_pages_per_run == 5
last_crawl_page == 0
default_batch_size == 50
route_batch_size == 100
name_cut == 50
cron_fields == 5

Forums == 1..NForums
Ids == 1..MaxId
CrawlModes == {"crawl_tids", "crawl_magnets", "update_magnets"}
MagnetModes == {"crawl_magnets", "update_magnets"}
SchedModes == CrawlModes \cup {"other"}
Terminal == {"SUCCESS", "FAILURE"}
Active == {"PENDING", "PROGRESS"}

VARIABLES
    config_max_tid,   \* persisted config['max_tid'] (the watermark)
    tid_files,        \* forum -> set of TIDs stored in the forum's tid_file
    tasks,            \* TaskManager.tasks: the registered task objects
    task_id,          \* CrawlTask.task_id, the key of the task in TaskManager.tasks
    now,              \* int(time.time())
    scheduler,        \* the saved schedule configuration and the job of the scheduler
    req,              \* request thread -> "idle" | "checked" (between the count check and add_task)
    state,            \* CrawlTask.state
    stop_flag,        \* CrawlTask.stop_flag
    stop_pc,          \* position of a stop() call on the task: "idle" | "s222"
    mode,             \* CrawlTask.mode
    forums,           \* enabled forums of the task's config_data
    pc,               \* position of the task thread in _run and the crawler
    cr,               \* crawler locals of the task
    result,           \* value returned by the crawl method
    transfer,         \* auto-transfer (process_csv_file) was started by the task
    hist,             \* history of the task, for the properties only
    pool,             \* one detailed run of the record-fetch pool with its workers
    pan,              \* Pan115Manager: config, success record file and one running submission
    progress,         \* CrawlTask.progress
    disc              \* one detailed pass of _crawl_single_forum_tids with its TID file

vars == <<config_max_tid, tid_files, tasks, task_id, now, scheduler, req, state, stop_flag, stop_pc, mode,
          forums, pc, cr, result, transfer, hist, pool, pan, progress, disc>>

\* ------------------------------------------------------------ pure helpers

SetMax(S) == IF S = {} THEN 0
             ELSE LET x == CHOOSE y \in S : \A z \in S : z <= y IN x

\* a sort in ascending order
RECURSIVE SortDescMut(_)
SortDescMut(S) == IF S = {} THEN <<>>
                  ELSE LET m == CHOOSE y \in S : \A z \in S : y <= z
                       IN <<m>> \o SortDescMut(S \ {m})
\* sort(key=int, reverse=True) over a duplicate-free collection
RECURSIVE SortDesc(_)
SortDesc(S) == IF S = {} THEN <<>>
               ELSE LET m == SetMax(S) IN <<m>> \o SortDesc(S \ {m})

\* WebCrawler._compare_tids
compare_tids(tid1, tid2) == tid1 - tid2

\* WebCrawler._load_tids_from_file: the digit lines of the file, descending
load_tids_from_file(f) == SortDesc(tid_files[f])

RECURSIVE SortAsc(_)
SortAsc(S) == IF S = {} THEN <<>>
              ELSE LET m == CHOOSE y \in S : \A z \in S : y <= z IN <<m>> \o SortAsc(S \ {m})

\* enabled_forums = [f for f in forums if f.get('enabled', True)], in configuration order
enabled_forums(t) == SortAsc(forums[t])

\* a filter that also keeps the identifier equal to the watermark
new_tids_ofMut(all_tids, max_tid) ==
    IF max_tid = 0 THEN all_tids
    ELSE SelectSeq(all_tids, LAMBDA tid : compare_tids(tid, max_tid) >= 0)
\* the new-TID filter of crawl_magnets_incremental
new_tids_of(all_tids, max_tid) ==
    IF max_tid = 0 THEN all_tids
    ELSE SelectSeq(all_tids, LAMBDA tid : compare_tids(tid, max_tid) > 0)

\* the running maximum after one forum of crawl_magnets_incremental
IncMaxMut(new_tids, max_tid) == new_tids[Len(new_tids)]
inc_max(new_tids, max_tid) ==
    IF compare_tids(new_tids[1], max_tid) > 0 THEN new_tids[1] ELSE max_tid

\* page range of _crawl_single_forum_tids for the forum's start_page and end_page and the
\* configuration's max_pages_per_run and last_crawl_page
page_start(sp, last) == IF last > 0 THEN last + 1 ELSE sp
\* a range that is not capped
page_endMut(sp, ep, mp, last) == ep
page_end(sp, ep, mp, last) ==
    IF (ep - page_start(sp, last) + 1) > mp THEN page_start(sp, last) + mp - 1 ELSE ep

\* the page range with the default configuration
effective_start == page_start(start_page, last_crawl_page)
effective_end == page_end(start_page, EndPage, max_pages_per_run, last_crawl_page)

get_running_tasks_count == Cardinality({t \in tasks : state[t] \in Active})

\* the task id f"task_{int(time.time())}_{ident}" or f"scheduled_task_{...}_{...}"
Idents == 1..MaxIdent
NoId == [prefix |-> "none", ts |-> 0, ident |-> 0]
prefix(r) == IF r = "sched" THEN "scheduled_task" ELSE "task"

\* a < b for two task ids as python compares the strings: the prefixes differ in their
\* first character ('s' < 't'); int(time.time()) has ten digits, so that the timestamps
\* compare as their values do; then the thread idents
id_less(a, b) ==
    IF a.prefix # b.prefix THEN a.prefix = "scheduled_task"
    ELSE IF a.ts # b.ts THEN a.ts < b.ts
    ELSE a.ident < b.ident

\* sort(key=lambda x: x[1].task_id, reverse=True) over the values of the dictionary
RECURSIVE SortByIdDesc(_, _)
SortByIdDesc(S, ids) ==
    IF S = {} THEN <<>>
    ELSE LET m == CHOOSE x \in S : \A y \in S : ~id_less(ids[x], ids[y])
         IN <<m>> \o SortByIdDesc(S \ {m}, ids)

\* a cleanup that takes every task for a finished one
cleanup_finished_tasksMut(reg, st, ids) ==
    LET finished == reg
        order == SortByIdDesc(finished, ids)
    IN IF Cardinality(finished) > keep_finished
       THEN reg \ {order[i] : i \in (keep_finished + 1)..Len(order)}
       ELSE reg
\* TaskManager.cleanup_finished_tasks: keep the 10 finished tasks with the largest id
cleanup_finished_tasks(reg, st, ids) ==
    LET finished == {t \in reg : st[t] \in Terminal}
        order == SortByIdDesc(finished, ids)
    IN IF Cardinality(finished) > keep_finished
       THEN reg \ {order[i] : i \in (keep_finished + 1)..Len(order)}
       ELSE reg

NoCr == [fidx |-> 0, max_tid |-> 0, self_max_tid |-> 0, tids |-> <<>>, sub |-> 0,
         idx |-> 0, all_results |-> <<>>, page |-> 0, ret |-> "none"]
NoResult == [success |-> FALSE, max_tid |-> 0, file |-> FALSE]
NoHist == [wm0 |-> 0, crawled |-> FALSE, any_fetch |-> FALSE, early_stop |-> FALSE, run_stop |-> FALSE,
           transfer_after_stop |-> FALSE, transfer_raised |-> FALSE, emit_after_stop |-> FALSE]
IdlePool == [pc |-> "off", n |-> 0, worker_count |-> 0, cb |-> FALSE, futures |-> <<>>, idx |-> 0,
             results |-> <<>>, stop_flag |-> FALSE, observed |-> FALSE, late_start |-> FALSE]
NoRet == [success |-> FALSE, total |-> 0, success_count |-> 0, failed_count |-> 0,
          failed_details |-> 0]
Nothing == [success |-> TRUE, total |-> 0, success_count |-> 0, failed_count |-> 0,
            failed_details |-> 0]
IdlePan == [cfg |-> [batch_size |-> default_batch_size, skip_duplicates |-> TRUE,
                     deduplication_scope |-> "all"],
            success_record_file |-> {},
            pc |-> "idle", entry |-> "none", cb |-> FALSE, dedup |-> FALSE,
            magnet_links |-> <<>>, outer_bs |-> 0, outer_i |-> 0, batch_magnets |-> <<>>,
            tot_success |-> 0, tot_failed |-> 0,
            arg |-> <<>>, valid_magnets |-> <<>>, i |-> 0, batch |-> <<>>,
            total_success |-> 0, total_failed |-> 0, ret |-> NoRet,
            j |-> 0, success_count |-> 0, failed_count |-> 0, after |-> "none",
            failed_details |-> 0, all_failed_details |-> 0,
            last |-> "none", waited |-> FALSE, bulk |-> <<>>, chunk_bulk |-> "none",
            chunk_items |-> 0, accepted |-> {}, marked |-> {}, all_ok |-> TRUE,
            outer |-> <<>>, distinct |-> {}, invalid |-> FALSE]

\* no discovery pass is modelled in detail
IdleDisc == [pc |-> "off", forum |-> [start_page |-> 0, end_page |-> 0],
             config |-> [max_pages_per_run |-> 0, last_crawl_page |-> 0],
             start_page |-> 0, end_page |-> 0, page |-> 0, futures |-> <<>>, k |-> 0,
             all_tids |-> <<>>, returned |-> {}, file |-> <<>>, loaded |-> <<>>]

\* scheduler.get_job(scheduler_job_id) is None
NoJob == [cron |-> <<>>, mode |-> "none"]
\* the default schedule configuration; no job is installed
NoSched == [schedule |-> [enabled |-> FALSE, cron |-> <<"*", "*", "*", "*", "*">>,
                          mode |-> "update_magnets"],
            job |-> NoJob, before |-> NoJob, failed |-> FALSE]

Set(f, t, v) == [f EXCEPT ![t] = v]
TaskDom == DOMAIN state
Requesters == DOMAIN req
CurForum(t) == enabled_forums(t)[cr[t].fidx]

persistV == <<config_max_tid, tid_files>>
regV == <<tasks, task_id, now, scheduler, req>>
stopV == <<stop_flag, stop_pc>>
taskV == <<state, mode, forums>>

\* ------------------------------------------------- start_crawl / scheduler

\* start_crawl and execute_scheduled_task: the running-count check
start_check(r) ==
    /\ req[r] = "idle"
    /\ get_running_tasks_count < max_concurrent_tasks
    /\ req' = Set(req, r, "checked")
    /\ UNCHANGED <<persistV, tasks, task_id, now, scheduler, taskV, stopV, pc, cr, result,
                   transfer, hist, pool, pan, progress, disc>>

\* TaskManager.add_task: self.tasks[task.task_id] = task
add_task(reg, ids, t, id) == {u \in reg : ids[u] # id} \cup {t}

\* the task id is built, then CrawlTask.__init__, add_task, start and
\* cleanup_finished_tasks for the new task object t
Register(r, t, m, F) ==
    /\ req[r] = "checked"
    /\ state[t] = "NONE"
    /\ \A u \in TaskDom : u < t => state[u] # "NONE"
    /\ state' = Set(state, t, "PENDING")
    /\ \E i \in Idents :
         LET id == [prefix |-> prefix(r), ts |-> now, ident |-> i] IN
         /\ task_id' = Set(task_id, t, id)
         /\ tasks' = cleanup_finished_tasks(add_task(tasks, task_id, t, id), state', task_id')
    /\ mode' = Set(mode, t, m)
    /\ forums' = Set(forums, t, F)
    /\ pc' = Set(pc, t, "start")
    /\ req' = Set(req, r, "idle")
    /\ UNCHANGED <<persistV, now, scheduler, stopV, cr, result, transfer, hist, pool, pan, progress, disc>>

\* a second passes
tick ==
    /\ now < PreRunning + 1 + MaxTick
    /\ now' = now + 1
    /\ UNCHANGED <<persistV, tasks, task_id, scheduler, req, taskV, stopV, pc, cr, result,
                   transfer, hist, pool, pan, progress, disc>>

\* start_crawl after the check: the mode is validated
start_crawl(t) ==
    \E m \in CrawlModes, F \in SUBSET Forums : Register("http", t, m, F)

\* execute_scheduled_task after the check: the mode comes from the schedule configuration
execute_scheduled_task(t) ==
    \E m \in SchedModes, F \in SUBSET Forums : Register("sched", t, m, F)

\* ------------------------------------------------------- CrawlTask.stop

\* stop_crawl -> CrawlTask.stop: self.stop_flag = True
stop_set_flag(t) ==
    /\ t \in tasks
    /\ stop_pc[t] = "idle"
    /\ stop_flag' = Set(stop_flag, t, TRUE)
    /\ stop_pc' = Set(stop_pc, t, "s222")
    /\ hist' = Set(hist, t, [hist[t] EXCEPT
                 !.early_stop = @ \/ (~stop_flag[t] /\ ~hist[t].any_fetch /\ pc[t] # "done"),
                 !.run_stop = @ \/ (state[t] = "PROGRESS" /\ pc[t] # "done")])
    /\ UNCHANGED <<persistV, regV, taskV, pc, cr, result, transfer, pool, pan, progress, disc>>

\* CrawlTask.stop: self.state = 'FAILURE'
stop_set_state(t) ==
    /\ stop_pc[t] = "s222"
    /\ state' = Set(state, t, "FAILURE")
    /\ stop_pc' = Set(stop_pc, t, "idle")
    /\ UNCHANGED <<persistV, regV, stop_flag, mode, forums, pc, cr, result, transfer, hist, pool, pan, progress, disc>>

\* ------------------------------------------------------- CrawlTask._run

Goto(t, l) == pc' = Set(pc, t, l)

\* progress_callback of _run: dropped when the stop flag is set, else self.progress = p
Report(t, p) == progress' = IF stop_flag[t] THEN progress ELSE Set(progress, t, p)
\* int((k / n) * band)
Share(k, n, band) == (k * band) \div n
TaskFrame == UNCHANGED <<persistV, regV, taskV, stopV, result, transfer, hist, pool, pan, disc>>

run_begin(t) ==
    /\ pc[t] = "start"
    /\ state' = Set(state, t, "PROGRESS")
    /\ progress' = Set(progress, t, 0)
    /\ Goto(t, "r234")
    /\ UNCHANGED <<persistV, regV, mode, forums, stopV, cr, result, transfer, hist, pool, pan, disc>>

run_first_check(t) ==
    /\ pc[t] = "r234"
    /\ IF stop_flag[t] THEN Goto(t, "done") ELSE Goto(t, "r238")
    /\ UNCHANGED <<cr, progress>> /\ TaskFrame

run_load_config(t) ==
    /\ pc[t] = "r238"
    /\ cr' = Set(cr, t, [NoCr EXCEPT !.self_max_tid = config_max_tid])
    /\ hist' = Set(hist, t, [hist[t] EXCEPT !.wm0 = config_max_tid])
    /\ Goto(t, "r263")
    /\ UNCHANGED <<persistV, regV, taskV, stopV, result, transfer, pool, pan, progress, disc>>

run_dispatch(t) ==
    /\ pc[t] = "r263"
    /\ IF stop_flag[t] THEN Goto(t, "done")
       ELSE IF mode[t] = "crawl_tids" THEN Goto(t, "t413")
       ELSE IF mode[t] = "crawl_magnets" THEN Goto(t, "f533")
       ELSE IF mode[t] = "update_magnets" THEN Goto(t, "i596")
       ELSE Goto(t, "r340")
    /\ hist' = Set(hist, t, [hist[t] EXCEPT !.crawled = ~stop_flag[t] /\ mode[t] \in CrawlModes])
    /\ UNCHANGED <<persistV, regV, taskV, stopV, cr, result, transfer, pool, pan, progress, disc>>

run_except(t) ==
    /\ pc[t] = "r340"
    /\ state' = Set(state, t, "FAILURE")
    /\ progress' = Set(progress, t, 0)
    /\ Goto(t, "r346")
    /\ UNCHANGED <<persistV, regV, mode, forums, stopV, cr, result, transfer, hist, pool, pan, disc>>

run_stop_check(t) ==
    /\ pc[t] = "r275"
    /\ IF stop_flag[t] THEN Goto(t, "r346") ELSE Goto(t, "r276")
    /\ UNCHANGED <<cr, progress>> /\ TaskFrame

\* a bookkeeping that does not look at the mode
run_successMut(t) ==
    /\ pc[t] = "r276"
    /\ state' = Set(state, t, "SUCCESS")
    /\ progress' = Set(progress, t, 100)
    /\ IF result[t].success THEN Goto(t, "r287") ELSE Goto(t, "r346")
    /\ UNCHANGED <<persistV, regV, mode, forums, stopV, cr, result, transfer, hist, pool, pan, disc>>
run_success(t) ==
    /\ pc[t] = "r276"
    /\ state' = Set(state, t, "SUCCESS")
    /\ progress' = Set(progress, t, 100)
    /\ IF result[t].success /\ mode[t] \in MagnetModes THEN Goto(t, "r287") ELSE Goto(t, "r346")
    /\ UNCHANGED <<persistV, regV, mode, forums, stopV, cr, result, transfer, hist, pool, pan, disc>>

\* ConfigManager.update_max_tid(result['max_tid'])
update_max_tid(t) ==
    /\ pc[t] = "r287"
    /\ config_max_tid' = result[t].max_tid
    /\ Goto(t, "r295")
    /\ UNCHANGED <<tid_files, regV, taskV, stopV, cr, result, transfer, hist, pool, pan, progress, disc>>

\* what process_csv_file does in the auto-transfer step: it returns a result that
\* reports success or failure, or it raises (no login, or any other exception)
TransferOutcomes == {"ok", "failed", "raised"}

\* the auto-transfer step: runs when the result file exists and auto_transfer_enabled is
\* set. The status is set and a task_progress event emitted, process_csv_file is called
\* with a progress callback that emits task_progress, and its result or the message of
\* its exception is stored in self.result['pan115_transfer']; the state is not touched
run_transfer(t) ==
    /\ pc[t] = "r295"
    /\ \E enabled \in BOOLEAN, outcome \in TransferOutcomes :
         LET go == result[t].file /\ enabled IN
         /\ transfer' = Set(transfer, t, go)
         /\ hist' = Set(hist, t, [hist[t] EXCEPT !.transfer_after_stop = go /\ stop_flag[t],
                                                !.transfer_raised = go /\ outcome = "raised",
                                                !.emit_after_stop = go /\ stop_flag[t]])
    /\ Goto(t, "r346")
    /\ UNCHANGED <<persistV, regV, taskV, stopV, cr, result, pool, pan, progress, disc>>

\* socketio.emit('task_complete'); the thread ends and its locals are gone
run_complete(t) ==
    /\ pc[t] = "r346"
    /\ Goto(t, "done")
    /\ cr' = Set(cr, t, NoCr)
    /\ result' = Set(result, t, NoResult)
    /\ hist' = Set(hist, t, [hist[t] EXCEPT !.wm0 = 0, !.any_fetch = FALSE,
                                           !.transfer_raised = FALSE])
    /\ UNCHANGED <<persistV, regV, taskV, stopV, transfer, pool, pan, progress, disc>>

\* the crawl method returns res to _run
Return(t, res) ==
    /\ result' = Set(result, t, res)
    /\ Goto(t, "r275")

CrawlFrame == UNCHANGED <<persistV, regV, taskV, stopV, transfer, hist, pool, pan, disc>>

SetCr(t, c) == cr' = Set(cr, t, c)
Failed == [success |-> FALSE, max_tid |-> 0, file |-> FALSE]

\* ------------------------------------------------ _crawl_single_forum_tids

\* enter _crawl_single_forum_tids for the current forum, to return to caller
EnterDiscovery(t, caller) ==
    /\ SetCr(t, [cr[t] EXCEPT !.page = effective_start, !.ret = caller])
    /\ Goto(t, "d471")

\* executor.submit(self._crawl_forum_page, fid, typeid, page) for the next page
discover_submit_page(t) ==
    /\ pc[t] = "d471"
    /\ cr[t].page <= effective_end
    /\ SetCr(t, [cr[t] EXCEPT !.page = @ + 1])
    /\ hist' = Set(hist, t, [hist[t] EXCEPT !.any_fetch = TRUE])
    /\ UNCHANGED <<persistV, regV, taskV, stopV, pc, result, transfer, pool, pan, progress, disc>>

\* collect the pages' TIDs and _save_tids_to_file(all_tids, tid_file): the file is rewritten
discover_save(t) ==
    /\ pc[t] = "d471"
    /\ cr[t].page > effective_end
    /\ \E found \in (IF effective_end < effective_start THEN {{}} ELSE SUBSET Ids) :
         tid_files' = Set(tid_files, CurForum(t), found)
    /\ SetCr(t, [cr[t] EXCEPT !.fidx = @ + 1, !.page = 0, !.ret = "none"])
    /\ Goto(t, IF cr[t].ret = "tids" THEN "t421" ELSE "i615")
    /\ UNCHANGED <<config_max_tid, regV, taskV, stopV, result, transfer, hist, pool, pan, progress, disc>>

\* --------------------------------------------------------- crawl_forum_tids

tids_begin(t) ==
    /\ pc[t] = "t413"
    /\ IF forums[t] = {}
       THEN Return(t, Failed) /\ UNCHANGED cr
       ELSE SetCr(t, [cr[t] EXCEPT !.fidx = 1]) /\ Goto(t, "t421") /\ UNCHANGED result
    /\ UNCHANGED progress
    /\ CrawlFrame

tids_forum(t) ==
    /\ pc[t] = "t421"
    /\ IF cr[t].fidx > Len(enabled_forums(t))
       THEN /\ Report(t, 100)
            /\ Return(t, [success |-> TRUE, max_tid |-> 0, file |-> FALSE]) /\ UNCHANGED cr
       ELSE /\ Report(t, Share(cr[t].fidx - 1, Len(enabled_forums(t)), 100))
            /\ EnterDiscovery(t, "tids") /\ UNCHANGED result
    /\ CrawlFrame

\* ------------------------------------------------------- _crawl_tids_magnets

EnterPool(t, tids, caller) ==
    /\ SetCr(t, [cr[t] EXCEPT !.tids = tids, !.sub = 0, !.idx = 0, !.ret = caller])
    /\ Goto(t, "p728")

\* the submit loop: stop check, then executor.submit(self._crawl_single_tid_magnets, tid, forum_id)
pool_submit(t) ==
    /\ pc[t] = "p728"
    /\ cr[t].sub < Len(cr[t].tids)
    /\ ~stop_flag[t]
    /\ SetCr(t, [cr[t] EXCEPT !.sub = @ + 1])
    /\ hist' = Set(hist, t, [hist[t] EXCEPT !.any_fetch = TRUE])
    /\ UNCHANGED <<persistV, regV, taskV, stopV, pc, result, transfer, pool, pan, progress, disc>>

pool_submit_end(t) ==
    /\ pc[t] = "p728"
    /\ cr[t].sub = Len(cr[t].tids) \/ stop_flag[t]
    /\ Goto(t, "p737")
    /\ UNCHANGED <<cr, progress>> /\ TaskFrame

PoolReturn(t) == Goto(t, IF cr[t].ret = "full" THEN "f560" ELSE "i682")

\* top of the collection loop: end of the futures, or the stop flag observed
pool_collect_top(t) ==
    /\ pc[t] = "p737"
    /\ IF cr[t].idx = cr[t].sub \/ stop_flag[t] THEN PoolReturn(t) ELSE Goto(t, "p762")
    /\ UNCHANGED <<cr, progress>> /\ TaskFrame

\* the per-item delay and the stop check after it
pool_delay(t) ==
    /\ pc[t] = "p762"
    /\ IF stop_flag[t] THEN PoolReturn(t) ELSE Goto(t, "p765")
    /\ UNCHANGED <<cr, progress>> /\ TaskFrame

\* future.result(timeout=120): one Record for the TID (fetched, failed or timed out)
pool_result(t) ==
    /\ pc[t] = "p765"
    /\ SetCr(t, [cr[t] EXCEPT !.idx = @ + 1,
                 !.all_results = Append(@, <<CurForum(t), cr[t].tids[cr[t].idx + 1]>>)])
    /\ Report(t, 50 + Share(cr[t].idx + 1, Len(cr[t].tids), 50))
    /\ Goto(t, "p737")
    /\ TaskFrame

\* -------------------------------------------------------- crawl_magnets_full

full_begin(t) ==
    /\ pc[t] = "f533"
    /\ IF forums[t] = {}
       THEN Return(t, Failed) /\ UNCHANGED cr
       ELSE SetCr(t, [cr[t] EXCEPT !.fidx = 1]) /\ Goto(t, "f541") /\ UNCHANGED result
    /\ UNCHANGED progress
    /\ CrawlFrame

full_forum(t) ==
    /\ pc[t] = "f541"
    /\ IF cr[t].fidx > Len(enabled_forums(t))
       THEN /\ Report(t, 100)
            /\ Return(t, [success |-> TRUE, max_tid |-> cr[t].self_max_tid, file |-> TRUE])
            /\ UNCHANGED cr
       ELSE LET tids == load_tids_from_file(CurForum(t)) IN
            /\ Report(t, Share(cr[t].fidx - 1, Len(enabled_forums(t)), 50))
            /\ IF tids = <<>>
               THEN SetCr(t, [cr[t] EXCEPT !.fidx = @ + 1]) /\ UNCHANGED pc
               ELSE EnterPool(t, tids, "full")
            /\ UNCHANGED result
    /\ CrawlFrame

\* self.config['max_tid'] = tids[0]
FullMax(tids, cur) == tids[1]

full_update_max(t) ==
    /\ pc[t] = "f560"
    /\ SetCr(t, [cr[t] EXCEPT !.self_max_tid = FullMax(cr[t].tids, @), !.fidx = @ + 1,
                 !.tids = <<>>, !.sub = 0, !.idx = 0, !.ret = "none"])
    /\ Goto(t, "f541")
    /\ UNCHANGED progress
    /\ TaskFrame

\* ------------------------------------------------- crawl_magnets_incremental

inc_begin(t) ==
    /\ pc[t] = "i596"
    /\ IF stop_flag[t] \/ forums[t] = {}
       THEN Return(t, Failed) /\ UNCHANGED cr
       ELSE /\ SetCr(t, [cr[t] EXCEPT !.max_tid = cr[t].self_max_tid, !.fidx = 1])
            /\ Goto(t, "i615")
            /\ UNCHANGED result
    /\ UNCHANGED progress
    /\ CrawlFrame

\* phase 1: refresh the TID file of each enabled forum
inc_discover_forum(t) ==
    /\ pc[t] = "i615"
    /\ IF cr[t].fidx > Len(enabled_forums(t)) \/ stop_flag[t]
       THEN SetCr(t, [cr[t] EXCEPT !.fidx = 1]) /\ Goto(t, "i635") /\ UNCHANGED progress
       ELSE /\ Report(t, Share(cr[t].fidx - 1, Len(enabled_forums(t)), 25))
            /\ EnterDiscovery(t, "inc")
    /\ TaskFrame

\* phase 2: load the forum's TIDs and keep the new ones
inc_diff_forum(t) ==
    /\ pc[t] = "i635"
    /\ IF cr[t].fidx > Len(enabled_forums(t)) \/ stop_flag[t]
       THEN Goto(t, "i688") /\ UNCHANGED <<cr, progress>>
       ELSE LET all_tids == load_tids_from_file(CurForum(t))
                new_tids == new_tids_of(all_tids, cr[t].max_tid)
            IN /\ Report(t, 25 + Share(cr[t].fidx - 1, Len(enabled_forums(t)), 25))
               /\ IF all_tids = <<>> \/ new_tids = <<>>
                  THEN SetCr(t, [cr[t] EXCEPT !.fidx = @ + 1]) /\ UNCHANGED pc
                  ELSE SetCr(t, [cr[t] EXCEPT !.tids = new_tids]) /\ Goto(t, "i672")
    /\ TaskFrame

inc_stop_check(t) ==
    /\ pc[t] = "i672"
    /\ IF stop_flag[t]
       THEN Goto(t, "i688") /\ UNCHANGED cr
       ELSE EnterPool(t, cr[t].tids, "inc")
    /\ UNCHANGED progress
    /\ TaskFrame

inc_update_max(t) ==
    /\ pc[t] = "i682"
    /\ SetCr(t, [cr[t] EXCEPT !.max_tid = inc_max(cr[t].tids, @), !.fidx = @ + 1,
                 !.tids = <<>>, !.sub = 0, !.idx = 0, !.ret = "none"])
    /\ Goto(t, "i635")
    /\ UNCHANGED progress
    /\ TaskFrame

inc_return(t) ==
    /\ pc[t] = "i688"
    /\ SetCr(t, [cr[t] EXCEPT !.self_max_tid = cr[t].max_tid])
    /\ Return(t, [success |-> TRUE, max_tid |-> cr[t].max_tid,
                  file |-> cr[t].all_results # <<>>])
    /\ Report(t, 100)
    /\ CrawlFrame

\* ------------------------------------------------------------ specification

\* the persisted configuration and TID files are whatever earlier runs left on disk
Init ==
    /\ config_max_tid \in 0..MaxId
    /\ tid_files \in [Forums -> SUBSET Ids]
    /\ tasks = {}
    /\ task_id = [t \in 1..NTasks |-> NoId]
    /\ now = 0
    /\ scheduler = NoSched
    /\ req = [r \in {"http", "sched"} |-> "idle"]
    /\ state = [t \in 1..NTasks |-> "NONE"]
    /\ stop_flag = [t \in 1..NTasks |-> FALSE]
    /\ stop_pc = [t \in 1..NTasks |-> "idle"]
    /\ mode = [t \in 1..NTasks |-> "none"]
    /\ forums = [t \in 1..NTasks |-> {}]
    /\ pc = [t \in 1..NTasks |-> "none"]
    /\ cr = [t \in 1..NTasks |-> NoCr]
    /\ result = [t \in 1..NTasks |-> NoResult]
    /\ transfer = [t \in 1..NTasks |-> FALSE]
    /\ hist = [t \in 1..NTasks |-> NoHist]
    /\ pool = IdlePool
    /\ pan = IdlePan
    /\ progress = [t \in 1..NTasks |-> 0]
    /\ disc = IdleDisc

\* no request is in progress and no task thread is alive
Quiet == (\A r \in Requesters : req[r] = "idle") /\ (\A t \in TaskDom : pc[t] \in {"none", "done"})

\* One task runs at a time: a start request arrives when no task thread is alive.
\* (SpecReg has the concurrent start requests.)
Next ==
    \/ \E r \in Requesters : Quiet /\ start_check(r)
    \/ \E t \in TaskDom : start_crawl(t)
    \/ \E t \in TaskDom : execute_scheduled_task(t)
    \/ \E t \in TaskDom : stop_set_flag(t)
    \/ \E t \in TaskDom : stop_set_state(t)
    \/ \E t \in TaskDom : run_begin(t)
    \/ \E t \in TaskDom : run_first_check(t)
    \/ \E t \in TaskDom : run_load_config(t)
    \/ \E t \in TaskDom : run_dispatch(t)
    \/ \E t \in TaskDom : run_except(t)
    \/ \E t \in TaskDom : run_stop_check(t)
    \/ \E t \in TaskDom : run_success(t)
    \/ \E t \in TaskDom : update_max_tid(t)
    \/ \E t \in TaskDom : run_transfer(t)
    \/ \E t \in TaskDom : run_complete(t)
    \/ \E t \in TaskDom : discover_submit_page(t)
    \/ \E t \in TaskDom : discover_save(t)
    \/ \E t \in TaskDom : pool_submit(t)
    \/ \E t \in TaskDom : pool_submit_end(t)
    \/ \E t \in TaskDom : pool_collect_top(t)
    \/ \E t \in TaskDom : pool_delay(t)
    \/ \E t \in TaskDom : pool_result(t)
    \/ \E t \in TaskDom : tids_begin(t)
    \/ \E t \in TaskDom : tids_forum(t)
    \/ \E t \in TaskDom : full_begin(t)
    \/ \E t \in TaskDom : full_forum(t)
    \/ \E t \in TaskDom : full_update_max(t)
    \/ \E t \in TaskDom : inc_begin(t)
    \/ \E t \in TaskDom : inc_discover_forum(t)
    \/ \E t \in TaskDom : inc_diff_forum(t)
    \/ \E t \in TaskDom : inc_stop_check(t)
    \/ \E t \in TaskDom : inc_update_max(t)
    \/ \E t \in TaskDom : inc_return(t)

Spec == Init /\ [][Next]_vars

\* Incremental runs one after another, never stopped; the request threads that start
\* them have the same ident
start_incremental(t) ==
    /\ \E F \in SUBSET Forums : Register("http", t, "update_magnets", F)
    /\ task_id'[t].ident = 1

NextInc ==
    \/ Quiet /\ start_check("http")
    \/ \E t \in TaskDom : start_incremental(t)
    \/ \E t \in TaskDom : run_begin(t)
    \/ \E t \in TaskDom : run_first_check(t)
    \/ \E t \in TaskDom : run_load_config(t)
    \/ \E t \in TaskDom : run_dispatch(t)
    \/ \E t \in TaskDom : run_stop_check(t)
    \/ \E t \in TaskDom : run_success(t)
    \/ \E t \in TaskDom : update_max_tid(t)
    \/ \E t \in TaskDom : run_transfer(t)
    \/ \E t \in TaskDom : run_complete(t)
    \/ \E t \in TaskDom : discover_submit_page(t)
    \/ \E t \in TaskDom : discover_save(t)
    \/ \E t \in TaskDom : pool_submit(t)
    \/ \E t \in TaskDom : pool_submit_end(t)
    \/ \E t \in TaskDom : pool_collect_top(t)
    \/ \E t \in TaskDom : pool_delay(t)
    \/ \E t \in TaskDom : pool_result(t)
    \/ \E t \in TaskDom : inc_begin(t)
    \/ \E t \in TaskDom : inc_discover_forum(t)
    \/ \E t \in TaskDom : inc_diff_forum(t)
    \/ \E t \in TaskDom : inc_stop_check(t)
    \/ \E t \in TaskDom : inc_update_max(t)
    \/ \E t \in TaskDom : inc_return(t)

\* the TID files do not exist yet (every Incremental run rewrites the files of its
\* forums before it reads them)
InitInc == Init /\ tid_files = [f \in Forums |-> {}]

SpecInc == InitInc /\ [][NextInc]_vars

\* ------------------------------------------------------------- properties

Range(q) == {q[i] : i \in 1..Len(q)}
\* the identifiers for which the run produced a Record
Fetched(t) == {r[2] : r \in Range(cr[t].all_results)}
\* the task thread leaves the success bookkeeping (with or without a watermark write)
RunEnds(t) == pc[t] \in {"r276", "r295"} /\ pc'[t] = "r346"

\* C1: the persisted watermark never decreases, whatever tasks run.
C1_WatermarkNeverDecreases == [][config_max_tid' >= config_max_tid]_vars

C3_AllNewFetched ==
    [][\A t \in TaskDom : (pc[t] = "i688" /\ pc'[t] = "r275") =>
          \A f \in forums[t] : \A id \in tid_files[f] :
              (hist[t].wm0 = 0 \/ compare_tids(id, hist[t].wm0) > 0)
                  => <<f, id>> \in Range(cr[t].all_results)]_vars

\* ------------------------------------------------ the registry at its ceiling

\* PreRunning tasks were started earlier and have reached the success bookkeeping
\* of _run (line 276); the other task ids are still unused
InitReg ==
    /\ config_max_tid = 0
    /\ tid_files = [f \in Forums |-> {}]
    /\ tasks = 1..PreRunning
    /\ task_id = [t \in 1..RegTasks |->
                    IF t <= PreRunning THEN [prefix |-> "task", ts |-> t, ident |-> 1] ELSE NoId]
    /\ now = PreRunning + 1
    /\ scheduler = NoSched
    /\ req = [r \in {"http", "sched"} |-> "idle"]
    /\ state = [t \in 1..RegTasks |-> IF t <= PreRunning THEN "PROGRESS" ELSE "NONE"]
    /\ stop_flag = [t \in 1..RegTasks |-> FALSE]
    /\ stop_pc = [t \in 1..RegTasks |-> "idle"]
    /\ mode = [t \in 1..RegTasks |-> IF t <= PreRunning THEN "crawl_tids" ELSE "none"]
    /\ forums = [t \in 1..RegTasks |-> {}]
    /\ pc = [t \in 1..RegTasks |-> IF t <= PreRunning THEN "r276" ELSE "none"]
    /\ cr = [t \in 1..RegTasks |-> NoCr]
    /\ result = [t \in 1..RegTasks |-> IF t <= PreRunning THEN Failed ELSE NoResult]
    /\ transfer = [t \in 1..RegTasks |-> FALSE]
    /\ hist = [t \in 1..RegTasks |-> NoHist]
    /\ pool = IdlePool
    /\ pan = IdlePan
    /\ progress = [t \in 1..RegTasks |-> 0]
    /\ disc = IdleDisc

\* concurrent start requests (one HTTP request thread, the scheduler thread), the new
\* threads' first statement and the earlier tasks finishing
NextReg ==
    \/ \E r \in Requesters : start_check(r)
    \/ \E t \in TaskDom : Register("http", t, "crawl_tids", {})
    \/ \E t \in TaskDom : Register("sched", t, "crawl_tids", {})
    \/ \E t \in TaskDom : run_begin(t)
    \/ \E t \in TaskDom : run_success(t)

SpecReg == InitReg /\ [][NextReg]_vars

\* C4: the number of registered tasks in state PENDING or PROGRESS never exceeds
\* max_concurrent_tasks, under any interleaving of start requests.
C4_CeilingRespected == get_running_tasks_count <= max_concurrent_tasks

\* C5: once a task's state is SUCCESS or FAILURE no later operation changes it.
C5_TerminalImmutable ==
    [][\A t \in TaskDom : state[t] \in Terminal => state'[t] = state[t]]_vars

\* C6: a task whose stop flag was set before any fetch was dispatched produces no
\* Record, starts no submission and ends in state FAILURE.
C6_EarlyStopFails ==
    \A t \in TaskDom : hist[t].early_stop =>
        /\ cr[t].all_results = <<>>
        /\ ~transfer[t]
        /\ (pc[t] = "done" /\ stop_pc[t] = "idle") => state[t] = "FAILURE"

\* C7: a task on which stop() was invoked while it was running ends in state FAILURE
\* and starts no auto-transfer after the stop.
C7_StopWhileRunningFails ==
    \A t \in TaskDom : hist[t].run_stop =>
        /\ ~hist[t].transfer_after_stop
        /\ (pc[t] = "done" /\ stop_pc[t] = "idle") => state[t] = "FAILURE"

\* C8: update_max_tid is called only by a task that was not stopped and whose crawl
\* reported success.
C8_WriteOnlyOnSuccess ==
    [][\A t \in TaskDom : (pc[t] = "r287" /\ pc'[t] = "r295") =>
          ~stop_flag[t] /\ result[t].success]_vars

\* C10: after the stop flag is set no page fetch is dispatched, in any mode.
C10_NoPageAfterStop ==
    [][\A t \in TaskDom : (pc[t] = "d471" /\ cr'[t].page = cr[t].page + 1) =>
          ~stop_flag[t]]_vars

\* C11: a run whose crawl method reported success = false (no forum enabled, or an
\* exception caught inside the crawl method) does not end in state SUCCESS.
C11_CrawlFailureFails ==
    \A t \in TaskDom :
        (pc[t] = "r346" /\ hist[t].crawled /\ ~result[t].success) => state[t] # "SUCCESS"

\* --------------------------------- _crawl_tids_magnets with its worker threads

PoolSet(p) == pool' = p /\ UNCHANGED <<persistV, regV, taskV, stopV, pc, cr, result, transfer, hist, pan, progress, disc>>
Running == {i \in 1..Len(pool.futures) : pool.futures[i] = "running"}
Queued == {i \in 1..Len(pool.futures) : pool.futures[i] = "queued"}

\* the task's stop flag is set while the pool runs
wp_stop ==
    /\ pool.pc \notin {"off", "returned"}
    /\ ~pool.stop_flag
    /\ PoolSet([pool EXCEPT !.stop_flag = TRUE])

\* the submit loop, one TID per step
wp_submit ==
    /\ pool.pc = "p728"
    /\ IF Len(pool.futures) < pool.n /\ ~pool.stop_flag
       THEN PoolSet([pool EXCEPT !.futures = Append(@, "queued")])
       ELSE PoolSet([pool EXCEPT !.pc = "p737"])

\* top of the collection loop; on stop: cancel futures[idx:], shutdown(wait=False), break
wp_collect_top ==
    /\ pool.pc = "p737"
    /\ IF pool.idx = Len(pool.futures)
       THEN PoolSet([pool EXCEPT !.pc = "exit"])
       ELSE IF pool.stop_flag
       THEN PoolSet([pool EXCEPT !.pc = "exit", !.observed = TRUE,
                !.futures = [i \in 1..Len(@) |->
                    IF i > pool.idx /\ @[i] = "queued" THEN "cancelled" ELSE @[i]]])
       ELSE PoolSet([pool EXCEPT !.pc = "p762"])

\* the per-item delay with its stop checks; on stop: break
wp_delay ==
    /\ pool.pc = "p762"
    /\ IF pool.stop_flag
       THEN PoolSet([pool EXCEPT !.pc = "exit", !.observed = TRUE])
       ELSE PoolSet([pool EXCEPT !.pc = "p765"])

\* the Record returned by _crawl_single_tid_magnets for the TID at position i
Record(i, ok) ==
    [tid |-> i, success |-> ok, message |-> IF ok THEN "none" ELSE "fetch_failed"]
\* the error_result of the except branch of the collection loop
error_result(i) == [tid |-> i, success |-> FALSE, message |-> "processing_failed"]

\* future.result(timeout=120): the Record of a finished fetch is appended, then the
\* progress callback is called; when it raises, the except branch appends an error_result
wp_result(raises) ==
    /\ pool.pc = "p765"
    /\ pool.futures[pool.idx + 1] \in {"done", "failed"}
    /\ raises => pool.cb
    /\ LET rec == Record(pool.idx + 1, pool.futures[pool.idx + 1] = "done") IN
       PoolSet([pool EXCEPT !.pc = "p737", !.idx = @ + 1,
                            !.results = IF raises
                                        THEN Append(Append(@, rec), error_result(pool.idx + 1))
                                        ELSE Append(@, rec)])

\* future.result(timeout=120) times out: an error_result, the fetch stays where it is
wp_timeout ==
    /\ pool.pc = "p765"
    /\ pool.futures[pool.idx + 1] \in {"queued", "running"}
    /\ PoolSet([pool EXCEPT !.pc = "p737", !.idx = @ + 1,
                            !.results = Append(@, error_result(pool.idx + 1))])

\* a free worker thread takes the oldest queued fetch and starts _crawl_single_tid_magnets
wp_worker_start ==
    /\ pool.pc # "off"
    /\ Queued # {}
    /\ Cardinality(Running) < pool.worker_count
    /\ LET i == CHOOSE j \in Queued : \A k \in Queued : j <= k IN
       PoolSet([pool EXCEPT !.futures[i] = "running", !.late_start = @ \/ pool.observed])

\* _crawl_single_tid_magnets returns: the Record of the page, or the failure Record of
\* its except branch
wp_worker_finish ==
    /\ \E i \in Running, ok \in BOOLEAN :
         PoolSet([pool EXCEPT !.futures[i] = IF ok THEN "done" ELSE "failed"])

\* leaving the with block: executor.shutdown(wait=True) returns when the workers are done
wp_exit ==
    /\ pool.pc = "exit"
    /\ Queued = {} /\ Running = {}
    /\ PoolSet([pool EXCEPT !.pc = "returned"])

InitPool ==
    /\ config_max_tid = 0
    /\ tid_files = [f \in Forums |-> {}]
    /\ tasks = {}
    /\ task_id = [t \in 1..NTasks |-> NoId]
    /\ now = 0
    /\ scheduler = NoSched
    /\ req = [r \in {"http", "sched"} |-> "idle"]
    /\ state = [t \in 1..NTasks |-> "NONE"]
    /\ stop_flag = [t \in 1..NTasks |-> FALSE]
    /\ stop_pc = [t \in 1..NTasks |-> "idle"]
    /\ mode = [t \in 1..NTasks |-> "none"]
    /\ forums = [t \in 1..NTasks |-> {}]
    /\ pc = [t \in 1..NTasks |-> "none"]
    /\ cr = [t \in 1..NTasks |-> NoCr]
    /\ result = [t \in 1..NTasks |-> NoResult]
    /\ transfer = [t \in 1..NTasks |-> FALSE]
    /\ hist = [t \in 1..NTasks |-> NoHist]
    /\ \E n \in 1..MaxPoolTids, w \in 1..MaxWorkers, cb \in BOOLEAN :
         pool = [IdlePool EXCEPT !.pc = "p728", !.n = n, !.worker_count = w, !.cb = cb]
    /\ pan = IdlePan
    /\ progress = [t \in 1..NTasks |-> 0]
    /\ disc = IdleDisc

NextPool ==
    \/ wp_stop \/ wp_submit \/ wp_collect_top \/ wp_delay \/ wp_result(FALSE) \/ wp_result(TRUE)
    \/ wp_timeout
    \/ wp_worker_start \/ wp_worker_finish \/ wp_exit

SpecPool == InitPool /\ [][NextPool]_vars

\* C9: once the pool has observed the stop flag, no fetch that had not yet started is
\* started afterwards.
C9_NoStartAfterStopObserved == ~pool.late_start

\* ------------------------------------------- Pan115Manager: texts and the record file

\* Magnet links are modelled by short texts: "a" and "b" are valid links, "t" is a valid
\* link whose dn parameter holds %09 (a tab once decoded), " a" is the link "a" with a
\* leading blank as a CSV cell can hold it, "x" is a text that is no magnet link.
TAB == "\t"
Magnets == {"a", "b", "t"}
Inputs == UNION {[1..n -> {"a", "b", "x"}] : n \in 0..MaxLen}
NamedInputs == UNION {[1..n -> {"a", " a", "t"}] : n \in 0..MaxNamed}
LongInputs == {[k \in 1..n |-> "a"] : n \in route_batch_size..(route_batch_size + OverCap)}
Outcomes == {"ok", "rejected", "auth", "timeout"}

strip(c) == IF c = " a" THEN "a" ELSE c
\* a check that every text passes
is_valid_magnetMut(m) == TRUE
is_valid_magnet(m) == m \in Magnets

\* parse_qs(urlparse(m).query)["dn"][0][:50] + "..."
get_magnet_name(m) ==
    LET dn == IF m = "t" THEN <<"n", TAB, "n">> ELSE <<"n">>
    IN SubSeq(dn, 1, IF Len(dn) < name_cut THEN Len(dn) ELSE name_cut) \o <<"...">>

\* the line written by _save_success_record: timestamp, name and link joined by tabs
record_line(m) == <<"ts", TAB>> \o get_magnet_name(m) \o <<TAB, m>>

\* str.split(sep)
RECURSIVE split(_, _)
split(s, sep) ==
    IF \A k \in 1..Len(s) : s[k] # sep THEN <<s>>
    ELSE LET k == CHOOSE k \in 1..Len(s) : s[k] = sep /\ \A h \in 1..(k - 1) : s[h] # sep
         IN <<SubSeq(s, 1, k - 1)>> \o split(SubSeq(s, k + 1, Len(s)), sep)

\* the set self.processed_magnets built by _load_processed_magnets; it is rebuilt before
\* every read, so it is a value of the step that reads it
load_processed_magnets(file, scope, csv) ==
    IF scope = "current"
    THEN {<<csv[k]>> : k \in 1..Len(csv)}
    ELSE {split(l, TAB)[3] : l \in {l \in file : Len(split(l, TAB)) >= 3}}

\* a slice that loses the last element of a short final batch
SliceMut(s, i, n) == SubSeq(s, i + 1, IF i + n <= Len(s) THEN i + n ELSE Len(s) - 1)
\* python s[i:i+n]
Slice(s, i, n) == SubSeq(s, i + 1, IF i + n < Len(s) THEN i + n ELSE Len(s))

\* the links of the file that pass the validity check and the duplicate check, in order
extract_links(csv, cfg, file) ==
    LET processed == load_processed_magnets(file, cfg.deduplication_scope, csv)
        stripped == [k \in 1..Len(csv) |-> strip(csv[k])]
        keep(m) == is_valid_magnet(m) /\ ~(cfg.skip_duplicates /\ <<m>> \in processed)
    IN SelectSeq(stripped, keep)

\* the lines of a cache file that are valid links
valid_lines(cache) ==
    SelectSeq([k \in 1..Len(cache) |-> strip(cache[k])], is_valid_magnet)

route_clamp(b) == IF b < 1 \/ b > route_batch_size THEN route_batch_size ELSE b

save_success_record(file, ms) == file \cup {record_line(ms[k]) : k \in 1..Len(ms)}

PanSet(p) ==
    /\ pan' = p
    /\ UNCHANGED <<persistV, regV, taskV, stopV, pc, cr, result, transfer, hist, pool, progress, disc>>

\* ----------------------------------------------------- Pan115Manager: entry points

\* process_csv_file up to the call of submit_batch_magnets; login is check_login()
process_csv_file(csv, cb, login) ==
    /\ pan.pc = "idle"
    /\ LET links == extract_links(csv, pan.cfg, pan.success_record_file)
           p == [pan EXCEPT !.entry = "csv", !.cb = cb, !.dedup = pan.cfg.skip_duplicates,
                            !.distinct = {strip(csv[k]) : k \in 1..Len(csv)} \cap Magnets,
                            !.invalid = \E k \in 1..Len(csv) : strip(csv[k]) \notin Magnets]
       IN IF ~login THEN PanSet([p EXCEPT !.pc = "raised"])
          ELSE IF links = <<>> THEN PanSet([p EXCEPT !.pc = "done", !.ret = Nothing])
          ELSE PanSet([p EXCEPT !.pc = "s439", !.magnet_links = links, !.arg = links])

\* process_cache_file up to its loop over the batches
enter_cache(p, cache, bs, login) ==
    LET magnets == valid_lines(cache)
    IN IF ~login THEN PanSet([p EXCEPT !.pc = "raised"])
       ELSE IF magnets = <<>> THEN PanSet([p EXCEPT !.pc = "done", !.ret = Nothing])
       ELSE PanSet([p EXCEPT !.pc = "c1168", !.magnet_links = magnets, !.outer_bs = bs,
                             !.outer_i = 0])

\* the route /api/pan115/process-cache: process_cache_file on a stored cache file
process_magnets_cache(cache, b, login) ==
    /\ pan.pc = "idle"
    /\ enter_cache([pan EXCEPT !.entry = "cache",
                                !.distinct = {strip(cache[k]) : k \in 1..Len(cache)} \cap Magnets,
                                !.invalid = \E k \in 1..Len(cache) : strip(cache[k]) \notin Magnets],
                   cache, route_clamp(b), login)

\* manual_transfer_csv: extract_magnets_to_cache, then process_cache_file with the
\* configured batch_size
manual_transfer_csv(csv, login) ==
    /\ pan.pc = "idle"
    /\ LET cache == extract_links(csv, pan.cfg, pan.success_record_file)
           p == [pan EXCEPT !.entry = "manual", !.dedup = pan.cfg.skip_duplicates,
                            !.distinct = {strip(csv[k]) : k \in 1..Len(csv)} \cap Magnets,
                            !.invalid = \E k \in 1..Len(csv) : strip(csv[k]) \notin Magnets]
       IN IF cache = <<>> THEN PanSet([p EXCEPT !.pc = "done", !.ret = Nothing])
          ELSE enter_cache(p, cache, pan.cfg.batch_size, login)

\* the loop header of process_cache_file and the call of submit_batch_magnets
cache_batch ==
    /\ pan.pc = "c1168"
    /\ IF pan.outer_i < Len(pan.magnet_links)
       THEN LET b == Slice(pan.magnet_links, pan.outer_i, pan.outer_bs)
            IN PanSet([pan EXCEPT !.pc = "s439", !.batch_magnets = b, !.arg = b,
                                  !.outer = Append(@, b)])
       ELSE PanSet([pan EXCEPT !.pc = "done",
                               !.ret = [success |-> TRUE, total |-> Len(pan.magnet_links),
                                        success_count |-> pan.tot_success,
                                        failed_count |-> pan.tot_failed,
                                        failed_details |-> 0]])

\* process_cache_file after submit_batch_magnets returned
cache_after ==
    /\ pan.pc = "c1178"
    /\ LET n == pan.ret.success_count
           first == SubSeq(pan.batch_magnets, 1,
                           IF n < Len(pan.batch_magnets) THEN n ELSE Len(pan.batch_magnets))
           more == pan.outer_i + pan.outer_bs < Len(pan.magnet_links)
       IN IF pan.ret.success
          THEN PanSet([pan EXCEPT !.pc = "c1168", !.outer_i = @ + pan.outer_bs,
                          !.tot_success = @ + n, !.tot_failed = @ + pan.ret.failed_count,
                          !.success_record_file = save_success_record(@, first),
                          !.waited = @ \/ more])
          ELSE PanSet([pan EXCEPT !.pc = "c1168", !.outer_i = @ + pan.outer_bs,
                          !.tot_failed = @ + Len(pan.batch_magnets),
                          !.waited = @ \/ more])

\* process_csv_file after submit_batch_magnets returned
csv_after ==
    /\ pan.pc = "c1065"
    /\ LET n == pan.ret.success_count
           first == SubSeq(pan.magnet_links, 1,
                           IF n < Len(pan.magnet_links) THEN n ELSE Len(pan.magnet_links))
       IN IF pan.ret.success /\ n > 0
          THEN PanSet([pan EXCEPT !.pc = "done",
                          !.success_record_file = save_success_record(@, first)])
          ELSE PanSet([pan EXCEPT !.pc = "done"])

\* the entry point returns; the locals of the invocation are gone
finish ==
    /\ pan.pc \in {"done", "raised"}
    /\ PanSet([IdlePan EXCEPT !.cfg = pan.cfg,
                              !.success_record_file = pan.success_record_file,
                              !.marked = {m \in Magnets : record_line(m) \in pan.success_record_file}])

\* ------------------------------------------------------------ submit_batch_magnets

\* submit_batch_magnets returns r to the entry point that called it
SubmitReturn(p, r) ==
    PanSet([p EXCEPT !.ret = r, !.pc = IF pan.entry = "csv" THEN "c1065" ELSE "c1178"])

\* lines 438-464: get_client (client_ok: it did not raise) and the validity filter
submit_begin(client_ok) ==
    /\ pan.pc = "s439"
    /\ LET valid == SelectSeq(pan.arg, is_valid_magnet)
           failed == [success |-> FALSE, total |-> Len(pan.arg), success_count |-> 0,
                      failed_count |-> Len(pan.arg), failed_details |-> 0]
       IN IF ~client_ok \/ valid = <<>>
          THEN SubmitReturn(pan, failed)
          ELSE PanSet([pan EXCEPT !.pc = "s466", !.valid_magnets = valid, !.i = 0,
                                  !.total_success = 0, !.total_failed = 0, !.bulk = <<>>,
                                  !.all_failed_details = 0])

\* the downstream endpoint is called with a link or a list of links and answers out
Called(p, out, ms) ==
    [p EXCEPT !.last = out,
              !.waited = FALSE,
              !.all_ok = @ /\ out = "ok",
              !.accepted = IF out = "ok" THEN @ \cup Range(ms) ELSE @]

\* _processed_magnets.add and _save_success_record for every link of ms
Marked(p, ms) ==
    [p EXCEPT !.success_record_file = save_success_record(@, ms)]

\* enter _submit_magnets_individually for the current batch, to continue at label after
Fallback(p, after) ==
    [p EXCEPT !.pc = "f554", !.j = 0, !.success_count = 0, !.failed_count = 0,
              !.failed_details = 0,
              !.after = after]

\* lines 466-496, 511: the next batch is cut and offline.add(batch) is called
bulk_call(out) ==
    /\ pan.pc = "s466"
    /\ pan.i < Len(pan.valid_magnets)
    /\ LET batch == Slice(pan.valid_magnets, pan.i, pan.cfg.batch_size)
           p == [Called(pan, out, batch) EXCEPT
                      !.batch = batch, !.bulk = Append(@, batch),
                      !.chunk_bulk = out, !.chunk_items = 0]
       IN IF out = "ok"
          THEN PanSet([Marked(p, batch) EXCEPT !.pc = "s499",
                                               !.total_success = @ + Len(batch)])
          ELSE IF out = "timeout" THEN PanSet(Fallback(p, "s513"))
          ELSE PanSet(Fallback(p, "s493"))

\* lines 521-533: the loop is over
submit_end ==
    /\ pan.pc = "s466"
    /\ pan.i >= Len(pan.valid_magnets)
    /\ SubmitReturn(pan, [success |-> TRUE, total |-> Len(pan.valid_magnets),
                          success_count |-> pan.total_success,
                          failed_count |-> pan.total_failed,
                          failed_details |-> pan.all_failed_details])

\* lines 554-581: offline.add(magnet_link) for the next link of the batch
item_call(out) ==
    /\ pan.pc = "f554"
    /\ pan.j < Len(pan.batch)
    /\ LET m == pan.batch[pan.j + 1]
           p == [Called(pan, out, <<m>>) EXCEPT
                      !.j = @ + 1, !.chunk_items = @ + 1,
                      !.waited = out # "timeout"]
       IN IF out = "ok"
          THEN PanSet([Marked(p, <<m>>) EXCEPT !.success_count = @ + 1])
          ELSE PanSet([p EXCEPT !.failed_count = @ + 1, !.failed_details = @ + 1])

\* lines 583-587 and 493-496 or 516-519: the fallback returns its counts
item_return ==
    /\ pan.pc = "f554"
    /\ pan.j >= Len(pan.batch)
    /\ LET p == [pan EXCEPT !.total_success = @ + pan.success_count,
                            !.total_failed = @ + pan.failed_count,
                            !.all_failed_details = @ + pan.failed_details]
       IN IF pan.after = "s493"
          THEN PanSet([p EXCEPT !.pc = "s499"])
          ELSE PanSet([p EXCEPT !.pc = "s466", !.i = @ + pan.cfg.batch_size,
                                !.chunk_bulk = "none", !.chunk_items = 0])

\* lines 498-509: the progress callback (raises: it raised) and the delay between batches
chunk_end(raises) ==
    /\ pan.pc = "s499"
    /\ raises => pan.cb
    /\ IF raises
       THEN PanSet(Fallback(pan, "s513"))
       ELSE PanSet([pan EXCEPT !.pc = "s466", !.i = @ + pan.cfg.batch_size,
                               !.chunk_bulk = "none", !.chunk_items = 0,
                               !.waited = @ \/ (pan.i + pan.cfg.batch_size
                                                   < Len(pan.valid_magnets))])

\* ------------------------------------------- the submission pipeline on its own

Scopes == {"all", "current"}
RouteSizes == (0..MaxBatch) \cup {route_batch_size + OverCap}
Configs == {c \in [batch_size : 1..MaxBatch, skip_duplicates : BOOLEAN,
                    deduplication_scope : Scopes] :
               ~c.skip_duplicates => c.deduplication_scope = "all"}
LongSizes == {0, default_batch_size, route_batch_size + OverCap}
LongConfigs == [batch_size : {default_batch_size, route_batch_size + OverCap},
                skip_duplicates : {FALSE}, deduplication_scope : {"all"}]

NoTasks ==
    /\ config_max_tid = 0
    /\ tid_files = [f \in Forums |-> {}]
    /\ tasks = {}
    /\ task_id = [t \in 1..NTasks |-> NoId]
    /\ now = 0
    /\ scheduler = NoSched
    /\ req = [r \in {"http", "sched"} |-> "idle"]
    /\ state = [t \in 1..NTasks |-> "NONE"]
    /\ stop_flag = [t \in 1..NTasks |-> FALSE]
    /\ stop_pc = [t \in 1..NTasks |-> "idle"]
    /\ mode = [t \in 1..NTasks |-> "none"]
    /\ forums = [t \in 1..NTasks |-> {}]
    /\ pc = [t \in 1..NTasks |-> "none"]
    /\ cr = [t \in 1..NTasks |-> NoCr]
    /\ result = [t \in 1..NTasks |-> NoResult]
    /\ transfer = [t \in 1..NTasks |-> FALSE]
    /\ hist = [t \in 1..NTasks |-> NoHist]
    /\ pool = IdlePool
    /\ progress = [t \in 1..NTasks |-> 0]

InitPan ==
    /\ NoTasks
    /\ disc = IdleDisc
    /\ \E cfg \in Configs : pan = [IdlePan EXCEPT !.cfg = cfg]

PipelineStep ==
    \/ cache_batch
    \/ cache_after
    \/ csv_after
    \/ \E client_ok \in BOOLEAN : submit_begin(client_ok)
    \/ \E out \in Outcomes : bulk_call(out)
    \/ submit_end
    \/ \E out \in Outcomes : item_call(out)
    \/ item_return
    \/ \E raises \in BOOLEAN : chunk_end(raises)

NextPan ==
    \/ pan.pc = "idle" /\ \E csv \in Inputs, cb \in BOOLEAN, login \in BOOLEAN : process_csv_file(csv, cb, login)
    \/ pan.pc = "idle" /\ \E cache \in Inputs, b \in RouteSizes, login \in BOOLEAN : process_magnets_cache(cache, b, login)
    \/ PipelineStep

SpecPan == InitPan /\ [][NextPan]_vars

InitCap ==
    /\ disc = IdleDisc
    /\ NoTasks
    /\ \E cfg \in LongConfigs : pan = [IdlePan EXCEPT !.cfg = cfg]

\* long files, sent to a downstream endpoint that accepts every bulk call, without a
\* progress callback
NextCap ==
    \/ pan.pc = "idle" /\ \E csv \in LongInputs, login \in BOOLEAN : process_csv_file(csv, FALSE, login)
    \/ pan.pc = "idle" /\ \E cache \in LongInputs, b \in LongSizes, login \in BOOLEAN : process_magnets_cache(cache, b, login)
    \/ pan.pc = "idle" /\ \E csv \in LongInputs, login \in BOOLEAN : manual_transfer_csv(csv, login)
    \/ cache_batch
    \/ cache_after
    \/ csv_after
    \/ \E client_ok \in BOOLEAN : submit_begin(client_ok)
    \/ bulk_call("ok")
    \/ submit_end
    \/ chunk_end(FALSE)
    \/ finish

SpecCap == InitCap /\ [][NextCap]_vars

\* ----------------------------------------------- properties of the submission pipeline

\* a step in which offline.add is called with a batch, or with one link
BulkStep == pan.pc = "s466" /\ pan'.pc \in {"s499", "f554"}
ItemStep == pan.pc = "f554" /\ pan'.pc = "f554" /\ pan'.j = pan.j + 1
CallStep == BulkStep \/ ItemStep

RECURSIVE Flatten(_)
Flatten(ss) == IF ss = <<>> THEN <<>> ELSE Head(ss) \o Flatten(Tail(ss))
Count(m, ms) == Cardinality({k \in 1..Len(ms) : ms[k] = m})
Ceil(n, c) == (n + c - 1) \div c

\* the links whose line the entry point added to the success record file
Logged == {m \in Magnets : record_line(m) \in pan.success_record_file} \ pan.marked

\* C12: when process_csv_file or process_cache_file is over, every link it appended to
\* the success record file was accepted by the downstream endpoint, in a bulk call or
\* in its own call.
C12_LoggedOnlyIfAccepted ==
    pan.pc = "done" => Logged \subseteq pan.accepted

\* C14: with deduplication scope 'current' and a downstream endpoint that accepts every
\* call, process_csv_file submits each distinct valid link of the file exactly once and
\* reports as many successes as there are distinct valid links ([a,a,b]: a once, b once,
\* succeeded = 2).
C14_CurrentScopeOncePerKey ==
    (/\ pan.pc = "done" /\ pan.entry = "csv"
     /\ pan.cfg.skip_duplicates /\ pan.cfg.deduplication_scope = "current"
     /\ pan.all_ok /\ pan.ret.success)
    => /\ pan.ret.success_count = Cardinality(pan.distinct)
       /\ pan.ret.failed_count = 0
       /\ Len(Flatten(pan.bulk)) = Cardinality(pan.distinct)
       /\ \A m \in pan.distinct : Count(m, Flatten(pan.bulk)) = 1

\* C15: the batches cut from N valid links with size c are Ceil(N/c) consecutive
\* batches of at most c links that hold the N links once each, in input order; for the
\* batches submit_batch_magnets sends in bulk and for the batches process_cache_file
\* hands to it.
C15_BatchSplitting ==
    /\ (pan.pc \in {"c1065", "c1178"} /\ pan.ret.success) =>
          /\ Flatten(pan.bulk) = pan.valid_magnets
          /\ Len(pan.bulk) = Ceil(Len(pan.valid_magnets), pan.cfg.batch_size)
          /\ \A k \in 1..Len(pan.bulk) : Len(pan.bulk[k]) \in 1..pan.cfg.batch_size
    /\ (pan.pc = "done" /\ pan.entry \in {"cache", "manual"} /\ pan.outer # <<>>) =>
          /\ Flatten(pan.outer) = pan.magnet_links
          /\ Len(pan.outer) = Ceil(Len(pan.magnet_links), pan.outer_bs)
          /\ \A k \in 1..Len(pan.outer) : Len(pan.outer[k]) \in 1..pan.outer_bs

C15_Witness ==
    /\ pan.pc = "c1065" /\ pan.ret.success
    /\ Len(pan.valid_magnets) = 3 /\ pan.cfg.batch_size = 2 /\ Len(pan.bulk) = 2

\* C17: when submit_batch_magnets moves on to the next batch, the batch had one bulk
\* call; if that call was accepted no link of the batch was submitted on its own, and
\* otherwise every link of the batch was submitted on its own exactly once.
C17_BulkThenFallback ==
    [][(pan.pc \in {"s499", "f554"} /\ pan'.i # pan.i) =>
          /\ pan.chunk_bulk # "none"
          /\ pan.chunk_bulk = "ok" => pan.chunk_items = 0
          /\ pan.chunk_bulk # "ok" => pan.chunk_items = Len(pan.batch)]_vars

\* C18: a per-item call that fails with a transient error is followed by another attempt
\* for the same link; the link is not counted as failed after its first failed attempt.
\* (The fallback loop makes one call per link, so every call is a first attempt.)
C18_TransientRetried ==
    [][(ItemStep /\ pan'.last = "timeout") =>
          pan'.failed_count = pan.failed_count]_vars

\* C19: after a call answered with the authentication/verification-required error no
\* further call, bulk or per-item, is made in the invocation.
C19_AuthStops ==
    [][CallStep => pan.last # "auth"]_vars

\* C20: a call that follows an earlier call of the invocation is preceded by a wait
\* (time.sleep) made after that earlier call.
C20_WaitBetweenCalls ==
    [][CallStep => (pan.last = "none" \/ pan.waited)]_vars

\* ------------------------------------- repeated invocations with global deduplication

DedupConfigs == [batch_size : 1..MaxBatch, skip_duplicates : {TRUE},
                 deduplication_scope : {"all"}]

InitDedup ==
    /\ disc = IdleDisc
    /\ NoTasks
    /\ \E cfg \in DedupConfigs : pan = [IdlePan EXCEPT !.cfg = cfg]

NextDedup ==
    \/ pan.pc = "idle" /\ \E csv \in NamedInputs, cb \in BOOLEAN, login \in BOOLEAN : process_csv_file(csv, cb, login)
    \/ pan.pc = "idle" /\ \E csv \in NamedInputs, login \in BOOLEAN : manual_transfer_csv(csv, login)
    \/ PipelineStep
    \/ finish

SpecDedup == InitDedup /\ [][NextDedup]_vars

\* the links sent to the downstream endpoint by the step
SentByStep ==
    IF BulkStep THEN Range(pan'.batch)
    ELSE IF ItemStep THEN {pan.batch[pan.j + 1]}
    ELSE {}

\* C13: with skip_duplicates and scope 'all', every link passed to _save_success_record
\* by an earlier invocation is in the set _load_processed_magnets builds from the record
\* file, and no later invocation sends such a link to the downstream endpoint.
C13_KnownAfterReload ==
    /\ [](\A m \in pan.marked :
             <<m>> \in load_processed_magnets(pan.success_record_file, "all", <<>>))
    /\ [][pan.dedup => SentByStep \cap pan.marked = {}]_vars

\* C16: no bulk call carries more than 100 links.
C16_BulkWithinCap ==
    \A k \in 1..Len(pan.bulk) : Len(pan.bulk[k]) <= route_batch_size

\* C21: the result of submit_batch_magnets has success_count + failed_count = total,
\* and its failed_details list has one entry for every link counted as failed.
C21_CountsAddUp ==
    pan.pc \in {"c1065", "c1178"} =>
        /\ pan.ret.success_count + pan.ret.failed_count = pan.ret.total
        /\ pan.ret.failed_details = pan.ret.failed_count

\* ------------------------------------------------ the registry with finished tasks

\* PreRunning + 1 tasks of earlier starts have finished; which of them the scheduler had
\* started differs from run to run
InitClean ==
    /\ config_max_tid = 0
    /\ tid_files = [f \in Forums |-> {}]
    /\ tasks = 1..(PreRunning + 1)
    /\ \E sched \in {{}, {t \in 1..RegTasks : t % 2 = 0}, 1..RegTasks} :
         task_id = [t \in 1..RegTasks |->
                      IF t <= PreRunning + 1
                      THEN [prefix |-> IF t \in sched THEN "scheduled_task" ELSE "task",
                            ts |-> t, ident |-> 1]
                      ELSE NoId]
    /\ now = PreRunning + 1
    /\ scheduler = NoSched
    /\ req = [r \in {"http", "sched"} |-> "idle"]
    /\ state = [t \in 1..RegTasks |-> IF t <= PreRunning + 1 THEN "SUCCESS" ELSE "NONE"]
    /\ stop_flag = [t \in 1..RegTasks |-> FALSE]
    /\ stop_pc = [t \in 1..RegTasks |-> "idle"]
    /\ mode = [t \in 1..RegTasks |-> IF t <= PreRunning + 1 THEN "crawl_tids" ELSE "none"]
    /\ forums = [t \in 1..RegTasks |-> {}]
    /\ pc = [t \in 1..RegTasks |-> IF t <= PreRunning + 1 THEN "done" ELSE "none"]
    /\ cr = [t \in 1..RegTasks |-> NoCr]
    /\ result = [t \in 1..RegTasks |-> NoResult]
    /\ transfer = [t \in 1..RegTasks |-> FALSE]
    /\ hist = [t \in 1..RegTasks |-> NoHist]
    /\ pool = IdlePool
    /\ pan = IdlePan
    /\ progress = [t \in 1..RegTasks |-> IF t <= PreRunning + 1 THEN 100 ELSE 0]
    /\ disc = IdleDisc

\* start requests, one stop request for a new task, the first statement of the new
\* threads and the clock
NextClean ==
    \/ \E r \in Requesters : start_check(r)
    \/ \E t \in TaskDom : Register("http", t, "crawl_tids", {})
    \/ \E t \in TaskDom : Register("sched", t, "crawl_tids", {})
    \/ \E t \in TaskDom : t > PreRunning + 1 /\ ~stop_flag[t] /\ stop_set_flag(t)
    \/ \E t \in TaskDom : stop_set_state(t)
    \/ \E t \in TaskDom : run_begin(t)
    \/ tick

SpecClean == InitClean /\ [][NextClean]_vars

\* t is registered in this step
Registered(t) == state[t] = "NONE" /\ state'[t] = "PENDING"
\* the registry of the step that registers t, between its add_task and its cleanup
Added(t) == add_task(tasks, task_id, t, task_id'[t])
\* the finished tasks the cleanup of that step finds
Finished(t) == {u \in Added(t) : state'[u] \in Terminal}

\* C22: a cleanup removes no task that is PENDING or PROGRESS, and leaves at most 10
\* tasks in state SUCCESS or FAILURE in the registry.
C22_CleanupKeepsRunning ==
    [][\A t \in TaskDom : Registered(t) =>
          /\ \A u \in Added(t) : state'[u] \in Active => u \in tasks'
          /\ Cardinality({u \in tasks' : state'[u] \in Terminal}) <= keep_finished]_vars

\* a finished task has been removed by a cleanup (no registered task has its id) while
\* the registry holds a task that is PENDING or PROGRESS
C22_Witness ==
    /\ \E t \in TaskDom : /\ state[t] \in Terminal /\ t \notin tasks
                           /\ \A u \in tasks : task_id[u] # task_id[t]
    /\ \E u \in tasks : state[u] \in Active

\* C23: when a cleanup finds more than 10 finished tasks, none of the tasks it removes
\* has a later creation timestamp than a finished task it keeps.
C23_KeepsMostRecent ==
    [][\A t \in TaskDom : (Registered(t) /\ Cardinality(Finished(t)) > keep_finished) =>
          \A kept \in Finished(t) \cap tasks', gone \in Added(t) \ tasks' :
             task_id[gone].ts <= task_id[kept].ts]_vars

\* ------------------------------------------------ a task that runs to its end

\* the steps of the thread of task t for a TID crawl with no forum enabled
ThreadStep(t) ==
    \/ run_begin(t) \/ run_first_check(t) \/ run_load_config(t) \/ run_dispatch(t)
    \/ tids_begin(t) \/ run_stop_check(t) \/ run_success(t) \/ run_complete(t)

NextLive ==
    \/ Quiet /\ start_check("http")
    \/ \E t \in TaskDom : Register("http", t, "crawl_tids", {})
    \/ \E t \in TaskDom : stop_set_flag(t)
    \/ \E t \in TaskDom : stop_set_state(t)
    \/ \E t \in TaskDom : run_begin(t)
    \/ \E t \in TaskDom : run_first_check(t)
    \/ \E t \in TaskDom : run_load_config(t)
    \/ \E t \in TaskDom : run_dispatch(t)
    \/ \E t \in TaskDom : tids_begin(t)
    \/ \E t \in TaskDom : run_stop_check(t)
    \/ \E t \in TaskDom : run_success(t)
    \/ \E t \in TaskDom : run_complete(t)

\* a started thread keeps running, and a stop() call that has begun completes
SpecLive ==
    /\ Init /\ [][NextLive]_vars
    /\ \A t \in 1..NTasks : WF_vars(ThreadStep(t)) /\ WF_vars(stop_set_state(t))

\* C24: a task whose stop flag is set is, from some moment on, no longer counted by
\* get_running_tasks_count.
C24_StoppedLeavesCount ==
    \A t \in 1..NTasks :
        [](stop_flag[t] => <>[](~(t \in tasks /\ state[t] \in Active)))

\* C25: a pool run that was not cancelled returns one Record for every identifier, in
\* the order of dispatch, and the Record of a fetch that failed or timed out has
\* success = false.
C25_OneRecordPerTid ==
    (pool.pc = "returned" /\ ~pool.stop_flag) =>
        /\ Len(pool.results) = pool.n
        /\ \A k \in 1..Len(pool.results) :
             /\ pool.results[k].tid = k
             /\ pool.futures[k] # "done" => ~pool.results[k].success

\* C30: whether or not the progress callback raises, no identifier gets a second Record.
C30_CallbackFailureIgnored ==
    \A j, k \in 1..Len(pool.results) :
        j # k => pool.results[j].tid # pool.results[k].tid

\* ------------------------------------------- an Incremental run after its discovery

\* the identifiers of the forum's TID file: 5, 3 and 9
ScenarioTids == {5, 3, 9}

\* task 1 is an Incremental run on forum 1 that has finished phase 1 (discovery): the
\* TID file holds some of the identifiers, the watermark it loaded is wm
InitScen ==
    /\ \E wm \in {0} \cup ScenarioTids, known \in SUBSET ScenarioTids :
         /\ config_max_tid = wm
         /\ tid_files = [f \in Forums |-> IF f = 1 THEN known ELSE {}]
         /\ cr = [t \in 1..NTasks |->
                   IF t = 1 THEN [NoCr EXCEPT !.self_max_tid = wm, !.max_tid = wm, !.fidx = 1]
                   ELSE NoCr]
         /\ hist = [t \in 1..NTasks |->
                     IF t = 1 THEN [NoHist EXCEPT !.wm0 = wm, !.crawled = TRUE, !.any_fetch = TRUE]
                     ELSE NoHist]
    /\ tasks = {1}
    /\ task_id = [t \in 1..NTasks |->
                    IF t = 1 THEN [prefix |-> "task", ts |-> 0, ident |-> 1] ELSE NoId]
    /\ now = 0
    /\ scheduler = NoSched
    /\ req = [r \in {"http", "sched"} |-> "idle"]
    /\ state = [t \in 1..NTasks |-> IF t = 1 THEN "PROGRESS" ELSE "NONE"]
    /\ stop_flag = [t \in 1..NTasks |-> FALSE]
    /\ stop_pc = [t \in 1..NTasks |-> "idle"]
    /\ mode = [t \in 1..NTasks |-> IF t = 1 THEN "update_magnets" ELSE "none"]
    /\ forums = [t \in 1..NTasks |-> IF t = 1 THEN {1} ELSE {}]
    /\ pc = [t \in 1..NTasks |-> IF t = 1 THEN "i635" ELSE "none"]
    /\ result = [t \in 1..NTasks |-> NoResult]
    /\ transfer = [t \in 1..NTasks |-> FALSE]
    /\ pool = IdlePool
    /\ pan = IdlePan
    /\ progress = [t \in 1..NTasks |-> 0]
    /\ disc = IdleDisc

\* phase 2 and 3 of the run, the end of _run, and a stop request
NextScen ==
    \/ \E t \in TaskDom : stop_set_flag(t)
    \/ \E t \in TaskDom : stop_set_state(t)
    \/ \E t \in TaskDom : inc_diff_forum(t)
    \/ \E t \in TaskDom : inc_stop_check(t)
    \/ \E t \in TaskDom : pool_submit(t)
    \/ \E t \in TaskDom : pool_submit_end(t)
    \/ \E t \in TaskDom : pool_collect_top(t)
    \/ \E t \in TaskDom : pool_delay(t)
    \/ \E t \in TaskDom : pool_result(t)
    \/ \E t \in TaskDom : inc_update_max(t)
    \/ \E t \in TaskDom : inc_return(t)
    \/ \E t \in TaskDom : run_stop_check(t)
    \/ \E t \in TaskDom : run_success(t)
    \/ \E t \in TaskDom : update_max_tid(t)
    \/ \E t \in TaskDom : run_transfer(t)
    \/ \E t \in TaskDom : run_complete(t)

SpecScen == InitScen /\ [][NextScen]_vars

\* the identifiers of the Records collected so far, in order
ResultTids(t) == [k \in 1..Len(cr[t].all_results) |-> cr[t].all_results[k][2]]
\* task t runs the scenario: watermark 0, the identifiers 5, 3 and 9, no stop
Scenario(t) == hist[t].wm0 = 0 /\ tid_files[1] = ScenarioTids /\ ~stop_flag[t]

Crons == UNION {[1..n -> {"*", "x"}] : n \in (cron_fields - 1)..cron_fields}
Schedules == [enabled : BOOLEAN, cron : Crons, mode : {"update_magnets", "crawl_tids"}]

\* the parse of update_scheduled_task: five fields, each accepted by CronTrigger
cron_ok(cron) == Len(cron) = cron_fields /\ \A k \in 1..Len(cron) : cron[k] = "*"

\* update_scheduled_task: the installed job is removed, then, when the schedule is
\* enabled, the expression is parsed and the new job added; a parse error is raised
update_scheduled_task(sc) ==
    [schedule |-> sc,
     job |-> IF sc.enabled /\ cron_ok(sc.cron) THEN [cron |-> sc.cron, mode |-> sc.mode]
             ELSE NoJob,
     before |-> scheduler.job,
     failed |-> sc.enabled /\ ~cron_ok(sc.cron)]

\* POST /api/config: the posted configuration (with its max_tid) is saved, then
\* update_scheduled_task runs; its exception is logged and the request answers success
save_config(sc, wm) ==
    /\ config_max_tid' = wm
    /\ scheduler' = update_scheduled_task(sc)
    /\ UNCHANGED <<tid_files, tasks, task_id, now, req, taskV, stopV, pc, cr, result, transfer,
                   hist, pool, pan, progress, disc>>

InitSched == NoTasks /\ pan = IdlePan /\ disc = IdleDisc

NextSched == \E sc \in Schedules, wm \in 0..MaxId : save_config(sc, wm)

SpecSched == InitSched /\ [][NextSched]_vars

\* C27: after a schedule update that failed, the scheduler holds the job it held before
\* the update.
C27_FailedUpdateKeepsJob ==
    scheduler.failed => scheduler.job = scheduler.before

\* C28: a task whose auto-transfer step raised (no login, or an unexpected exception
\* of the submission pipeline) ends in state FAILURE.
C28_TransferErrorFails ==
    \A t \in TaskDom :
        (pc[t] = "r346" /\ hist[t].transfer_raised) => state[t] = "FAILURE"

\* C29: no task_progress event is emitted and no status is written for a task whose
\* stop flag is set.
C29_NoProgressAfterStop ==
    \A t \in TaskDom : ~hist[t].emit_after_stop

\* ------------------------------------------------ the filter of the Incremental run

\* the identifiers the run has handed to the pool's executor for the current forum
Dispatched(t) == {cr[t].tids[k] : k \in 1..cr[t].sub}

\* C31: an Incremental run that started with a non-zero watermark neither dispatches a
\* fetch nor holds a Record for an identifier <= that watermark, in any forum.
C31_NothingAtOrBelowWatermark ==
    \A t \in TaskDom :
        (mode[t] = "update_magnets" /\ hist[t].wm0 > 0) =>
            \A id \in Fetched(t) \cup Dispatched(t) : compare_tids(id, hist[t].wm0) > 0

\* a run with a non-zero watermark has fetched from a forum whose TID file also holds an
\* identifier that is not above the watermark
C31_Witness ==
    \E t \in TaskDom :
        /\ mode[t] = "update_magnets" /\ hist[t].wm0 > 0
        /\ \E r \in Range(cr[t].all_results) :
              \E id \in tid_files[r[1]] : id <= hist[t].wm0

\* ------------------------------------------------------ the progress of a task

\* C35: the progress of a task is an integer from 0 to 100, and no step of its run
\* lowers it.
C35_ProgressMonotone ==
    [][\A t \in TaskDom : /\ progress'[t] \in 0..100
                          /\ progress'[t] >= progress[t]]_vars

\* ------------------------------------------------------ the TID files

\* C36: no step removes an identifier from the TID file of a forum; in particular a
\* discovery pass whose pages return no identifier leaves the file as it was.
C36_KnownIdsKept ==
    [][\A f \in Forums : tid_files[f] \subseteq tid_files'[f]]_vars

\* ------------------------------------------------------ the TID crawl and the watermark

\* a TID crawl or a full crawl is started by an HTTP request
start_one(t) ==
    /\ \E m \in {"crawl_tids", "crawl_magnets"}, F \in SUBSET Forums : Register("http", t, m, F)
    /\ task_id'[t].ident = 1

\* every forum has its TID file with the same identifiers, or no forum has one
InitOne == Init /\ tid_files \in {[f \in Forums |-> {}], [f \in Forums |-> Ids]}

\* the first task after the program's start, with stop requests at any moment
NextOne ==
    \/ tasks = {} /\ start_check("http")
    \/ \E t \in TaskDom : start_one(t)
    \/ \E t \in TaskDom : stop_set_flag(t)
    \/ \E t \in TaskDom : stop_set_state(t)
    \/ \E t \in TaskDom : run_begin(t)
    \/ \E t \in TaskDom : run_first_check(t)
    \/ \E t \in TaskDom : run_load_config(t)
    \/ \E t \in TaskDom : run_dispatch(t)
    \/ \E t \in TaskDom : run_stop_check(t)
    \/ \E t \in TaskDom : run_success(t)
    \/ \E t \in TaskDom : update_max_tid(t)
    \/ \E t \in TaskDom : run_transfer(t)
    \/ \E t \in TaskDom : run_complete(t)
    \/ \E t \in TaskDom : discover_submit_page(t)
    \/ \E t \in TaskDom : discover_save(t)
    \/ \E t \in TaskDom : pool_submit(t)
    \/ \E t \in TaskDom : pool_submit_end(t)
    \/ \E t \in TaskDom : pool_collect_top(t)
    \/ \E t \in TaskDom : pool_delay(t)
    \/ \E t \in TaskDom : pool_result(t)
    \/ \E t \in TaskDom : tids_begin(t)
    \/ \E t \in TaskDom : tids_forum(t)
    \/ \E t \in TaskDom : full_begin(t)
    \/ \E t \in TaskDom : full_forum(t)
    \/ \E t \in TaskDom : full_update_max(t)

SpecOne == InitOne /\ [][NextOne]_vars

\* the thread of a crawl_tids task is alive
TidsTaskAlive == \E t \in TaskDom : mode[t] = "crawl_tids" /\ pc[t] \notin {"none", "done"}

\* C38: while a crawl_tids task runs (to success, to failure or to a stop) the persisted
\* watermark does not change.
C38_TidsKeepsWatermark ==
    [][TidsTaskAlive => config_max_tid' = config_max_tid]_vars

\* a crawl_tids task with a watermark below an identifier it discovered has finished
\* with SUCCESS
C38_Witness ==
    \E t \in TaskDom :
        /\ mode[t] = "crawl_tids" /\ pc[t] = "done" /\ state[t] = "SUCCESS"
        /\ \E f \in forums[t] : \E id \in tid_files[f] : id > config_max_tid

\* ------------------------------------------------------ the task ids

\* start requests that arrive over HTTP one after the other, within the same second or
\* in different seconds, while earlier tasks run and finish
NextIds ==
    \/ start_check("http")
    \/ \E t \in TaskDom : Register("http", t, "crawl_tids", {})
    \/ \E t \in TaskDom : run_begin(t)
    \/ \E t \in TaskDom : run_success(t)
    \/ tick

SpecIds == InitReg /\ [][NextIds]_vars

\* C37: started tasks have different task ids: a task that is PENDING or PROGRESS is
\* not replaced in the registry by a task started later, and stays registered.
C37_OwnRegistryEntry ==
    [][/\ \A u \in tasks : state[u] \in Active => u \in tasks'
       /\ \A u, v \in tasks' : u # v => task_id'[u] # task_id'[v]
       /\ \A t \in TaskDom : Registered(t) => \A u \in tasks : task_id[u] # task_id'[t]]_vars

\* ------------------------------------------- one pass of _crawl_single_forum_tids

\* TIDs as the pattern tid=(\d+) finds them: digit strings, also with a leading zero
TidStrings == {"1", "2", "02"}
int(s) == IF s = "1" THEN 1 ELSE 2
NL == "\n"

\* what future.result(timeout=60) gives for a page: the TIDs that _crawl_forum_page
\* returned (none when the page fetch failed inside it), or an exception (timeout)
PageResults == [ok : {TRUE}, tids : SUBSET TidStrings] \cup {[ok |-> FALSE, tids |-> {}]}

\* the lists that hold every element of S once
Orders(S) == {q \in [1..Cardinality(S) -> S] : \A x \in S : \E k \in DOMAIN q : q[k] = x}
\* list(set(matches)): the page's TIDs in some order
AnyOrder(S) == CHOOSE q \in Orders(S) : TRUE

\* list.sort(key=int, reverse=True): descending, equal keys stay in their order
RECURSIVE sort_desc(_)
sort_desc(q) ==
    IF q = <<>> THEN <<>>
    ELSE LET top == CHOOSE k \in DOMAIN q : \A j \in DOMAIN q : int(q[j]) <= int(q[k])
             i == CHOOSE k \in DOMAIN q :
                      /\ int(q[k]) = int(q[top])
                      /\ \A j \in DOMAIN q : int(q[j]) = int(q[top]) => k <= j
         IN <<q[i]>> \o sort_desc(SubSeq(q, 1, i - 1) \o SubSeq(q, i + 1, Len(q)))

\* f.write(f"{tid}\n")
write_line(tid) == <<tid, NL>>
\* line.strip() for a line of the file
line_strip(line) == SelectSeq(line, LAMBDA c : c # NL)
\* tid and tid.isdigit()
is_tid_line(line) == Len(line_strip(line)) = 1 /\ line_strip(line)[1] \in TidStrings

write_lines(q) == [k \in DOMAIN q |-> write_line(q[k])]

\* a save that writes the list as it is, sorted
save_tids_to_fileMut(tids) == {write_lines(sort_desc(tids))}
\* _save_tids_to_file: list(set(tids)) in some order, sorted, one line per TID; the file
\* contents it can leave
save_tids_to_file(tids) ==
    {write_lines(sort_desc(q)) : q \in Orders({tids[k] : k \in DOMAIN tids})}

\* _load_tids_from_file for the lines of a file
read_tid_file(file) ==
    LET digit == SelectSeq(file, is_tid_line)
    IN sort_desc([k \in DOMAIN digit |-> line_strip(digit[k])[1]])

DiscSet(d) ==
    /\ disc' = d
    /\ UNCHANGED <<persistV, regV, taskV, stopV, pc, cr, result, transfer, hist, pool, pan, progress>>

\* the page range is computed from the forum and the configuration
disc_range ==
    /\ disc.pc = "d450"
    /\ LET sp == page_start(disc.forum.start_page, disc.config.last_crawl_page)
           ep == page_end(disc.forum.start_page, disc.forum.end_page,
                          disc.config.max_pages_per_run, disc.config.last_crawl_page)
       IN DiscSet([disc EXCEPT !.pc = "d471", !.start_page = sp, !.end_page = ep, !.page = sp])

\* for page in range(start_page, end_page + 1): executor.submit(self._crawl_forum_page, ...)
disc_submit ==
    /\ disc.pc = "d471"
    /\ disc.page <= disc.end_page
    /\ DiscSet([disc EXCEPT !.futures = Append(@, disc.page), !.page = @ + 1])

disc_submitted ==
    /\ disc.pc = "d471"
    /\ disc.page > disc.end_page
    /\ DiscSet([disc EXCEPT !.pc = "d475"])

\* tids = future.result(timeout=60); all_tids.extend(tids), or the exception is logged
disc_result(res) ==
    /\ disc.pc = "d475"
    /\ disc.k < Len(disc.futures)
    /\ DiscSet([disc EXCEPT !.k = @ + 1,
                            !.all_tids = IF res.ok THEN @ \o AnyOrder(res.tids) ELSE @,
                            !.returned = IF res.ok THEN @ \cup res.tids ELSE @])

\* self._save_tids_to_file(all_tids, tid_file) and the return
disc_save ==
    /\ disc.pc = "d475"
    /\ disc.k = Len(disc.futures)
    /\ \E f \in save_tids_to_file(disc.all_tids) :
         DiscSet([disc EXCEPT !.pc = "d486", !.file = f])

\* all_tids = self._load_tids_from_file(tid_file) in the second phase of the run
disc_load ==
    /\ disc.pc = "d486"
    /\ DiscSet([disc EXCEPT !.pc = "i645", !.loaded = read_tid_file(disc.file)])

\* forum and configuration as the start request gave them; the TID file of an earlier
\* pass may exist
InitDisc ==
    /\ NoTasks
    /\ pan = IdlePan
    /\ \E forum \in [start_page : 1..MaxPage, end_page : 0..MaxPage],
          config \in [max_pages_per_run : 0..MaxRunPages, last_crawl_page : 0..MaxPage],
          file \in {<<>>, write_lines(<<"2", "1">>)} :
         disc = [IdleDisc EXCEPT !.pc = "d450", !.forum = forum, !.config = config,
                                 !.file = file]

NextDisc ==
    \/ disc_range
    \/ disc_submit
    \/ disc_submitted
    \/ \E res \in PageResults : disc_result(res)
    \/ disc_save
    \/ disc_load

SpecDisc == InitDisc /\ [][NextDisc]_vars

\* the first page of the pass as the configuration defines it
EffectiveStart ==
    IF disc.config.last_crawl_page > 0 THEN disc.config.last_crawl_page + 1
    ELSE disc.forum.start_page

\* C32: every page dispatched lies between the effective start (last_crawl_page + 1 when
\* last_crawl_page > 0, else the forum's start_page) and the forum's end_page, the pages
\* are consecutive from the effective start, and their number is at least 0 and at most
\* max_pages_per_run.
C32_PageRange ==
    /\ \A k \in DOMAIN disc.futures :
          /\ disc.futures[k] = EffectiveStart + k - 1
          /\ disc.futures[k] <= disc.forum.end_page
    /\ Len(disc.futures) >= 0
    /\ Len(disc.futures) <= disc.config.max_pages_per_run

\* a pass that resumes after last_crawl_page, whose range was cut to max_pages_per_run
\* pages, has dispatched all its pages
C32_Witness ==
    /\ disc.pc = "d475"
    /\ disc.config.last_crawl_page > 0
    /\ disc.end_page < disc.forum.end_page
    /\ Len(disc.futures) = disc.config.max_pages_per_run
    /\ Len(disc.futures) > 0

\* the TIDs on the lines of the TID file
FileTids == [k \in DOMAIN disc.file |-> line_strip(disc.file[k])[1]]
Descending(q) == \A j, k \in DOMAIN q : j < k => int(q[j]) >= int(q[k])
OnceEach(q, S) == Len(q) = Cardinality(S) /\ \A x \in S : \E k \in DOMAIN q : q[k] = x

\* C33: after the pass the TID file holds every TID that the collected pages returned,
\* each once, and nothing else; loading the file gives these TIDs, each once, in
\* descending numeric order.
C33_SavedUnionLoadsBack ==
    /\ disc.pc \in {"d486", "i645"} => OnceEach(FileTids, disc.returned)
    /\ disc.pc = "i645" => OnceEach(disc.loaded, disc.returned) /\ Descending(disc.loaded)

\* two pages returned TIDs, one of them twice, and the file was loaded back
C33_Witness ==
    /\ disc.pc = "i645"
    /\ Cardinality(disc.returned) > 1
    /\ Len(disc.all_tids) > Cardinality(disc.returned)
    /\ disc.loaded # <<>>

\* ------------------------------------------------------ links that are no magnet links

\* C34: a text that fails the validity check (it is empty, does not start with magnet:?
\* or has no xt=) is in no bulk call and in no per-item call, and no line of the success
\* record file is written for it.
C34_InvalidNeverSent ==
    /\ [][\A m \in SentByStep : m \in Magnets]_vars
    /\ [](\A line \in pan.success_record_file : \E m \in Magnets : line = record_line(m))

\* an input with a text that is no magnet link is being processed: a bulk call was
\* refused, links of the batch went out one by one, and a link is in the record file
C34_Witness ==
    /\ pan.invalid
    /\ pan.bulk # <<>>
    /\ pan.chunk_items > 0
    /\ pan.success_record_file # {}
====
